---- MODULE Spec2Model ----
(***************************************************************************)
(* A model of vulcan_logger/logger.py: the Logger wrapper around a named   *)
(* logging.Logger, its setup (colorized console sink, optional file sink), *)
(* the caller resolution over the call stack and the five public logging   *)
(* methods.                                                                *)
(*                                                                         *)
(* Strings on which the code computes (file paths, file names) are         *)
(* sequences of tokens whose concatenation is the string; "/" is always a  *)
(* token of its own, so suffix tests, joins and base names work on tokens  *)
(* exactly as they work on the characters.                                 *)
(***************************************************************************)
EXTENDS Integers, Sequences, FiniteSets, TLC

\* Logger constructions per behaviour.
MaxLoggers == 2
\* Frames of the calling program below a public logging method.
MaxDepth == 2
\* Frames of an arbitrary frame sequence handed to the caller resolution.
MaxLen == 3

NoExc == "<none>"

----------------------------------------------------------------------------
(* Strings and paths *)

\* str.upper() on the level names the model uses.
Upper(s) ==
    CASE s = "debug" -> "DEBUG"
      [] s = "info" -> "INFO"
      [] s = "Warning" -> "WARNING"
      [] s = "warning" -> "WARNING"
      [] s = "error" -> "ERROR"
      [] s = "critical" -> "CRITICAL"
      [] OTHER -> s

\* logging's level names and their numbers (logging._nameToLevel).
StdLevels == {"DEBUG", "INFO", "WARNING", "ERROR", "CRITICAL"}

LevelNo(l) ==
    CASE l = "DEBUG" -> 10
      [] l = "INFO" -> 20
      [] l = "WARNING" -> 30
      [] l = "ERROR" -> 40
      [] l = "CRITICAL" -> 50
      [] OTHER -> 0

\* str.endswith(suffix)
EndsWith(s, suf) ==
    /\ Len(suf) <= Len(s)
    /\ SubSeq(s, Len(s) - Len(suf) + 1, Len(s)) = suf

SlashAt(p) == {i \in 1..Len(p) : p[i] = "/"}

LastSlash(p) == CHOOSE i \in SlashAt(p) : \A j \in SlashAt(p) : j <= i

\* os.path.basename
Basename(p) ==
    IF SlashAt(p) = {} THEN p ELSE SubSeq(p, LastSlash(p) + 1, Len(p))

\* os.path.dirname (of the paths the model builds: no doubled slashes)
Dirname(p) ==
    IF SlashAt(p) = {} THEN <<>>
    ELSE IF LastSlash(p) = 1 THEN <<"/">>
    ELSE SubSeq(p, 1, LastSlash(p) - 1)

\* os.path.join(a, b)
Join(a, b) ==
    IF b # <<>> /\ b[1] = "/" THEN b
    ELSE IF a = <<>> \/ a[Len(a)] = "/" THEN a \o b
    ELSE a \o <<"/">> \o b

----------------------------------------------------------------------------
(* Caller resolution *)

EXCLUDE ==
    << <<"decorator.py">>,
       <<"logger.py">>,
       <<"logging", "/", "__init__.py">>,
       <<"<frozen importlib._bootstrap>">> >>

\* The file of this component, as the interpreter reports it.
ComponentFile == <<"/", "site", "/", "vulcan_logger", "/", "logger.py">>

Frame(f, l) == [filename |-> f, lineno |-> l]

\* Mutant: the exclusion compares the base name instead of the path's suffix.
Excluded_basename(filename) ==
    \E i \in 1..Len(EXCLUDE) : Basename(filename) = EXCLUDE[i]

\* frame_info.filename.endswith(EXCLUDE)
Excluded(filename) == \E i \in 1..Len(EXCLUDE) : EndsWith(filename, EXCLUDE[i])

RECURSIVE ScanFrames(_, _)
\* The for loop of _stack_trace over the frames left to scan.
ScanFrames(frames, caller_info) ==
    IF frames = <<>> THEN caller_info
    ELSE IF ~Excluded(Head(frames).filename)
         THEN [caller_filename |-> Basename(Head(frames).filename),
               caller_lineno |-> Head(frames).lineno]
         ELSE ScanFrames(Tail(frames), caller_info)

\* _stack_trace, given the result of inspect.stack() taken inside it.
_stack_trace(stack) ==
    ScanFrames(Tail(stack), [caller_filename |-> <<"Unknown">>, caller_lineno |-> 0])

\* inspect.stack() inside _stack_trace, called from a frame sequence `outer`.
InspectStack(outer) == <<Frame(ComponentFile, 108)>> \o outer

----------------------------------------------------------------------------
(* The process: environment, logger registry, file system, output streams *)

VARIABLES
    env,          \* os.environ: the three variables the component reads
    loggers,      \* logging's registry: name -> [level, handlers]
    dirs,         \* directories that exist
    files,        \* files that exist
    stdout,       \* lines printed to standard output
    stderr,       \* lines printed to standard error
    instances,    \* names of the Logger objects constructed so far
    op,           \* the last operation: its inputs, and what it did
    call,         \* the call the last public method delegated to the logger
    emitted,      \* the records the sinks emitted during the last operation
    pc,           \* the calling program: "idle", or "returned" from op
    nLoggers,     \* Logger constructions so far
    stack,        \* a frame sequence handed to the caller resolution
    result        \* what the caller resolution returned for it

vars == <<env, loggers, dirs, files, stdout, stderr, instances, op, call,
          emitted, pc, nLoggers, stack, result>>

Names == {"a", "b"}
LevelArgs == {"debug", "Warning"}
LevelEnvValues == {"", "error"}
LogPathValues == {<<>>, <<"/", "logs">>}
LogNameValues == {<<"app">>, <<"/", "tmp", "/", "app">>}
Messages == {"m1", "m2"}
Faults == [install : BOOLEAN, mkdir : BOOLEAN, open : BOOLEAN]
NoFaults == [install |-> FALSE, mkdir |-> FALSE, open |-> FALSE]

IsSet(v) == [set |-> TRUE, val |-> v]
StrUnset == [set |-> FALSE, val |-> ""]
PathUnset == [set |-> FALSE, val |-> <<>>]

EnvStates ==
    [VULCAN_LOG_LEVEL : {StrUnset} \cup {IsSet(v) : v \in LevelEnvValues},
     log_path : {PathUnset} \cup {IsSet(v) : v \in LogPathValues},
     VULCAN_LOG_NAME : {PathUnset} \cup {IsSet(v) : v \in LogNameValues}]

\* os.environ.get(key, default), for a variable's entry e of env
EnvGet(e, default) == IF e.set THEN e.val ELSE default

NoCall ==
    [func |-> "", message |-> "",
     extra |-> [caller_filename |-> <<>>, caller_lineno |-> 0],
     exc_info |-> FALSE]

\* The state an operation works on; exc is the exception in flight, steps the
\* sub-steps entered and the faults raised, in order.
World ==
    [loggers |-> loggers, dirs |-> dirs, files |-> files, out |-> stdout,
     err |-> stderr, exc |-> NoExc, steps |-> <<>>, call |-> NoCall,
     emitted |-> <<>>]

Enter(w, step) == [w EXCEPT !.steps = Append(@, step)]
Raise(w, e, event) == [w EXCEPT !.exc = e, !.steps = Append(@, event)]
\* an except clause taking the exception in flight
Caught(w) == [w EXCEPT !.exc = NoExc]

FaultEvents == {"install!", "makedirs!", "open!", "setLevel!", "delegate!"}

\* _internal_error: print(final_message)
_internal_error(w, message, exc) ==
    [w EXCEPT !.out = Append(@, <<"Internal Logger Error: ", message,
                                  " | Exception: ", exc>>)]

----------------------------------------------------------------------------
(* The logging runtime and coloredlogs, as far as the component uses them *)

\* Logger.getEffectiveLevel(): a logger without a level of its own takes the
\* root logger's, WARNING unless the host program configured it.
EffectiveLevel(l) == IF l.level = "NOTSET" THEN "WARNING" ELSE l.level

ConsoleAt(hs) == {i \in 1..Len(hs) : hs[i].kind = "console"}

\* coloredlogs.replace_handler: the first stream handler on stdout/stderr goes.
RemoveConsole(hs) ==
    IF ConsoleAt(hs) = {} THEN hs
    ELSE LET i == CHOOSE k \in ConsoleAt(hs) : \A j \in ConsoleAt(hs) : k <= j
         IN SubSeq(hs, 1, i - 1) \o SubSeq(hs, i + 1, Len(hs))

\* coloredlogs.install(level=..., logger=..., fmt=..., datefmt=...): an unknown
\* level name falls back to INFO; the logger's own level is lowered to the
\* sink's when it is stricter; the new stream handler replaces the old one.
ColoredlogsInstall(w, name, level, fault) ==
    IF fault THEN Raise(w, "InstallError", "install!")
    ELSE LET lvl == IF level \in StdLevels THEN level ELSE "INFO"
             l == w.loggers[name]
             h == [kind |-> "console", level |-> lvl, target |-> <<"<stderr>">>]
         IN [w EXCEPT !.loggers[name] =
                [level |-> IF LevelNo(EffectiveLevel(l)) > LevelNo(lvl)
                           THEN lvl ELSE l.level,
                 handlers |-> Append(RemoveConsole(l.handlers), h)]]

\* The directories os.makedirs(p) makes sure of: p and its parents.
PrefixDirs(p) == {SubSeq(p, 1, i - 1) : i \in SlashAt(p) \ {1}} \cup {p}

\* os.makedirs(p, exist_ok=True)
Makedirs(w, p, fault) ==
    IF p = <<>> \/ fault THEN Raise(w, "OSError", "makedirs!")
    ELSE [w EXCEPT !.dirs = @ \cup PrefixDirs(p)]

\* logging.FileHandler(path) opens the file for appending at once.
OpenFile(w, path, fault) ==
    IF (Dirname(path) # <<>> /\ Dirname(path) \notin w.dirs) \/ fault
    THEN Raise(w, "OSError", "open!")
    ELSE [w EXCEPT !.files = @ \cup {path}]

----------------------------------------------------------------------------
(* Construction and setup *)

\* Mutant: the threshold ignores VULCAN_LOG_LEVEL.
ThresholdName_noenv(level) == Upper(level)

\* os.environ.get("VULCAN_LOG_LEVEL", self.level).upper()
ThresholdName(level) == Upper(EnvGet(env.VULCAN_LOG_LEVEL, level))

\* Mutant: the console installation without its try/except.
_install_coloredlogs_uncaught(w, name, level, f) ==
    ColoredlogsInstall(Enter(w, "install"), name, ThresholdName(level), f.install)

_install_coloredlogs(w, name, level, f) ==
    LET r == ColoredlogsInstall(Enter(w, "install"), name,
                                ThresholdName(level), f.install)
    IN IF r.exc # NoExc
       THEN _internal_error(Caught(r), "Error installing coloredlogs", r.exc)
       ELSE r

\* Mutant: the file name ignores VULCAN_LOG_NAME.
_file_name_fixed == <<"vulcan", ".log">>

_file_name == EnvGet(env.VULCAN_LOG_NAME, <<"vulcan">>) \o <<".log">>

\* Mutant: the directory creation without its try/except.
_make_dir_uncaught(w, log_path, f) ==
    IF log_path \notin w.dirs
    THEN Makedirs(Enter(w, "make_dir"), log_path, f.mkdir)
    ELSE Enter(w, "make_dir")

_make_dir(w, log_path, f) ==
    LET w0 == Enter(w, "make_dir")
        r == IF log_path \notin w0.dirs
             THEN Makedirs(w0, log_path, f.mkdir) ELSE w0
    IN IF r.exc # NoExc
       THEN _internal_error(Caught(r), "Error creating the log directory", r.exc)
       ELSE r

_file_handler(w, name, level, log_path, f) ==
    LET path == Join(log_path, _file_name)
        r1 == OpenFile(Enter(w, "file_handler"), path, f.open)
        r2 == IF r1.exc # NoExc THEN r1
              ELSE IF ThresholdName(level) \notin StdLevels
                   THEN Raise(r1, "ValueError", "setLevel!")
              ELSE [r1 EXCEPT !.loggers[name].handlers =
                       Append(@, [kind |-> "file",
                                  level |-> ThresholdName(level),
                                  target |-> path])]
    IN IF r2.exc # NoExc
       THEN _internal_error(Caught(r2), "Error creating log file handler", r2.exc)
       ELSE r2

_setup(w, name, level, f) ==
    LET w1 == _install_coloredlogs(w, name, level, f)
        log_path == env.log_path
    IN IF w1.exc # NoExc THEN w1
       ELSE IF log_path.set /\ log_path.val # <<>>
       THEN LET w2 == _make_dir(w1, log_path.val, f)
                w3 == IF w2.exc # NoExc THEN w2
                      ELSE _file_handler(w2, name, level, log_path.val, f)
            IN IF w3.exc # NoExc
               THEN _internal_error(Caught(w3),
                        "Error setting up file handler for logger", w3.exc)
               ELSE w3
       ELSE w1

\* Logger.__init__: self.level = level.upper(), then self._setup()
__init__(w, name, level, f) == _setup(w, name, Upper(level), f)

----------------------------------------------------------------------------
(* Logging calls *)

\* The level a severity method of logging.Logger logs at.
LevelName(func) ==
    CASE func = "debug" -> "DEBUG"
      [] func = "info" -> "INFO"
      [] func = "warning" -> "WARNING"
      [] func = "error" -> "ERROR"
      [] func = "critical" -> "CRITICAL"
      [] OTHER -> "NOTSET"

RECURSIVE CallHandlers(_, _, _)
\* Logger.callHandlers: every handler whose level the record reaches emits it.
CallHandlers(hs, i, record) ==
    IF i > Len(hs) THEN <<>>
    ELSE (IF LevelNo(record.levelname) >= LevelNo(hs[i].level)
          THEN <<[handler |-> i, target |-> hs[i].target, record |-> record]>>
          ELSE <<>>)
         \o CallHandlers(hs, i + 1, record)

\* self.logger.<func>(message, extra=..., exc_info=...): the delegated call.
\* The record is made when the logger is enabled for the level; a fault of
\* the call (a filter or a patched logger raising) leaves the caller with it.
LoggerCall(w, name, func, message, extra, exc_info, fault) ==
    LET w0 == [w EXCEPT !.call = [func |-> func, message |-> message,
                                  extra |-> extra, exc_info |-> exc_info]]
        l == w.loggers[name]
        record == [levelname |-> LevelName(func), message |-> message,
                   caller_filename |-> extra.caller_filename,
                   caller_lineno |-> extra.caller_lineno,
                   exc_info |-> exc_info]
    IN IF fault THEN Raise(w0, "Exception", "delegate!")
       ELSE IF LevelNo(LevelName(func)) < LevelNo(EffectiveLevel(l)) THEN w0
       ELSE [w0 EXCEPT !.emitted = CallHandlers(l.handlers, 1, record)]

\* _base(func, message, exc_info), entered from the frames `outer`.
_base(w, name, func, message, exc_info, outer, fault) ==
    LET caller_info ==
            _stack_trace(InspectStack(<<Frame(ComponentFile, 129)>> \o outer))
    IN LoggerCall(w, name, func, message, caller_info, exc_info, fault)

debug(w, name, message, callers, fault) ==
    _base(w, name, "debug", message, FALSE,
          <<Frame(ComponentFile, 140)>> \o callers, fault)

info(w, name, message, callers, fault) ==
    _base(w, name, "info", message, FALSE,
          <<Frame(ComponentFile, 150)>> \o callers, fault)

warning(w, name, message, callers, fault) ==
    _base(w, name, "warning", message, FALSE,
          <<Frame(ComponentFile, 160)>> \o callers, fault)

\* Mutant: critical asks for the exception context as error does.
critical_exc_info(w, name, message, callers, fault) ==
    _base(w, name, "critical", message, TRUE,
          <<Frame(ComponentFile, 170)>> \o callers, fault)

critical(w, name, message, callers, fault) ==
    _base(w, name, "critical", message, FALSE,
          <<Frame(ComponentFile, 170)>> \o callers, fault)

error(w, name, message, callers, fault) ==
    _base(w, name, "error", message, TRUE,
          <<Frame(ComponentFile, 180)>> \o callers, fault)

----------------------------------------------------------------------------
(* The calling program *)

MainFile == <<"/", "app", "/", "main.py">>
OtherMainFile == <<"/", "lib", "/", "main.py">>
MyLoggerFile == <<"/", "app", "/", "my", "logger.py">>
LoggingFile == <<"/", "lib", "/", "logging", "/", "__init__.py">>
DecoratorFile == <<"/", "lib", "/", "decorator.py">>
BootstrapFile == <<"<frozen importlib._bootstrap>">>

\* Source files of the calling program: none is this component's.
UserFiles == {MainFile, OtherMainFile, MyLoggerFile}
UserLines == {10, 20}
UserFrames == {Frame(f, l) : f \in UserFiles, l \in UserLines}

SeqsUpTo(S, n) == UNION {[1..k -> S] : k \in 0..n}

\* Call stacks of the calling program, innermost frame (the call site) first.
UserStacks == UNION {[1..k -> UserFrames] : k \in 1..MaxDepth}
OneStack == {<<Frame(MainFile, 10)>>}

\* Arbitrary frames, as inspect.stack() may report them.
AnyFiles == UserFiles \cup {ComponentFile, LoggingFile, DecoratorFile, BootstrapFile}
AnyFrames == {Frame(f, l) : f \in AnyFiles, l \in {10}}
                 \cup {Frame(MainFile, 20), Frame(ComponentFile, 129)}

----------------------------------------------------------------------------
(* Initial states *)

NoOp ==
    [kind |-> "start", name |-> "", level |-> "", f |-> NoFaults,
     method |-> "", message |-> "", callers |-> <<>>, fault |-> FALSE,
     raised |-> FALSE, steps |-> <<>>,
     pre |-> [handlers |-> <<>>, dirs |-> {}, files |-> {}, out |-> 0, err |-> 0]]

NoResult == [caller_filename |-> <<>>, caller_lineno |-> -1]

\* A fresh process: no logger configured, nothing printed, "/" and "/tmp" exist.
Fresh ==
    /\ loggers = [n \in Names |-> [level |-> "NOTSET", handlers |-> <<>>]]
    /\ dirs = {<<"/">>, <<"/", "tmp">>}
    /\ files = {}
    /\ stdout = <<>>
    /\ stderr = <<>>
    /\ instances = {}
    /\ op = NoOp
    /\ call = NoCall
    /\ emitted = <<>>
    /\ pc = "idle"
    /\ nLoggers = 0

Init ==
    /\ env \in EnvStates
    /\ Fresh
    /\ stack = <<>>
    /\ result = NoResult

\* The environments of the specification of the calls.
CallEnvs ==
    {e \in EnvStates : ~e.VULCAN_LOG_LEVEL.set /\ ~e.VULCAN_LOG_NAME.set
                       /\ (e.log_path.set => e.log_path.val # <<>>)}

InitCalls ==
    /\ env \in CallEnvs
    /\ Fresh
    /\ stack = <<>>
    /\ result = NoResult

InitStack ==
    /\ env = [VULCAN_LOG_LEVEL |-> StrUnset, log_path |-> PathUnset,
              VULCAN_LOG_NAME |-> PathUnset]
    /\ Fresh
    /\ stack \in {InspectStack(fs) : fs \in SeqsUpTo(AnyFrames, MaxLen)}
    /\ result = NoResult

----------------------------------------------------------------------------
(* Actions *)

\* What an operation leaves behind.
Apply(w) ==
    /\ pc' = "returned"
    /\ loggers' = w.loggers
    /\ dirs' = w.dirs
    /\ files' = w.files
    /\ stdout' = w.out
    /\ stderr' = w.err
    /\ call' = w.call
    /\ emitted' = w.emitted

Snapshot(name) ==
    [handlers |-> loggers[name].handlers, dirs |-> dirs, files |-> files,
     out |-> Len(stdout), err |-> Len(stderr)]

\* Logger(name, level)
ConstructIn(NS, LS, FS) ==
    /\ pc = "idle"
    /\ nLoggers < MaxLoggers
    /\ \E name \in NS, level \in LS, f \in FS :
          LET w == __init__(World, name, level, f)
          IN /\ Apply(w)
             /\ instances' = IF w.exc = NoExc THEN instances \cup {name}
                             ELSE instances
             /\ op' = [NoOp EXCEPT !.kind = "construct", !.name = name,
                                   !.level = level, !.f = f,
                                   !.raised = (w.exc # NoExc),
                                   !.steps = w.steps, !.pre = Snapshot(name)]
    /\ nLoggers' = nLoggers + 1
    /\ UNCHANGED <<env, stack, result>>

\* A public logging method called on a constructed Logger; w is its outcome.
LogStep(method, name, message, callers, fault, w) ==
    /\ Apply(w)
    /\ op' = [NoOp EXCEPT !.kind = "log", !.name = name, !.method = method,
                          !.message = message, !.callers = callers,
                          !.fault = fault, !.raised = (w.exc # NoExc),
                          !.steps = w.steps, !.pre = Snapshot(name)]
    /\ UNCHANGED <<env, instances, nLoggers, stack, result>>

CallDebugIn(SS) ==
    /\ pc = "idle"
    /\ \E name \in instances, message \in Messages, callers \in SS,
          fault \in BOOLEAN :
          LogStep("debug", name, message, callers, fault,
                  debug(World, name, message, callers, fault))

CallInfoIn(SS) ==
    /\ pc = "idle"
    /\ \E name \in instances, message \in Messages, callers \in SS,
          fault \in BOOLEAN :
          LogStep("info", name, message, callers, fault,
                  info(World, name, message, callers, fault))

CallWarningIn(SS) ==
    /\ pc = "idle"
    /\ \E name \in instances, message \in Messages, callers \in SS,
          fault \in BOOLEAN :
          LogStep("warning", name, message, callers, fault,
                  warning(World, name, message, callers, fault))

CallCriticalIn(SS) ==
    /\ pc = "idle"
    /\ \E name \in instances, message \in Messages, callers \in SS,
          fault \in BOOLEAN :
          LogStep("critical", name, message, callers, fault,
                  critical(World, name, message, callers, fault))

CallErrorIn(SS) ==
    /\ pc = "idle"
    /\ \E name \in instances, message \in Messages, callers \in SS,
          fault \in BOOLEAN :
          LogStep("error", name, message, callers, fault,
                  error(World, name, message, callers, fault))

\* The calling program goes on after a construction or a call.
Continue ==
    /\ pc = "returned"
    /\ pc' = "idle"
    /\ op' = NoOp
    /\ call' = NoCall
    /\ emitted' = <<>>
    /\ UNCHANGED <<env, loggers, dirs, files, stdout, stderr, instances,
                   nLoggers, stack, result>>

\* The setup in all its cases; the calls come from one call site.
Construct == ConstructIn(Names, LevelArgs, Faults)
CallDebug == CallDebugIn(OneStack)
CallInfo == CallInfoIn(OneStack)
CallWarning == CallWarningIn(OneStack)
CallCritical == CallCriticalIn(OneStack)
CallError == CallErrorIn(OneStack)

Next ==
    \/ Construct
    \/ CallDebug
    \/ CallInfo
    \/ CallWarning
    \/ CallCritical
    \/ CallError
    \/ Continue

Spec == Init /\ [][Next]_vars

\* The calls from every call stack; the setup without faults.
ConstructPlain == ConstructIn({"a"}, {"debug"}, {NoFaults})
CallDebugFrom == CallDebugIn(UserStacks)
CallInfoFrom == CallInfoIn(UserStacks)
CallWarningFrom == CallWarningIn(UserStacks)
CallCriticalFrom == CallCriticalIn(UserStacks)
CallErrorFrom == CallErrorIn(UserStacks)

NextCalls ==
    \/ ConstructPlain
    \/ CallDebugFrom
    \/ CallInfoFrom
    \/ CallWarningFrom
    \/ CallCriticalFrom
    \/ CallErrorFrom
    \/ Continue

SpecCalls == InitCalls /\ [][NextCalls]_vars

\* The caller resolution applied to a frame sequence.
Resolve ==
    /\ result = NoResult
    /\ result' = _stack_trace(stack)
    /\ UNCHANGED <<env, loggers, dirs, files, stdout, stderr, instances, op,
                   call, emitted, pc, nLoggers, stack>>

NextStack == Resolve

SpecStack == InitStack /\ [][NextStack]_vars

----------------------------------------------------------------------------
(* What the claims speak of *)

\* Fallback lines the last operation printed, on either stream.
LinesOut == Len(stdout) - op.pre.out
LinesErr == Len(stderr) - op.pre.err

\* Faults raised during the last operation.
FaultsRaised == Cardinality({i \in 1..Len(op.steps) : op.steps[i] \in FaultEvents})

Entered(step) == \E i \in 1..Len(op.steps) : op.steps[i] = step

LogPathOn == env.log_path.set /\ env.log_path.val # <<>>

FileAt(hs) == {i \in 1..Len(hs) : hs[i].kind = "file"}

Handlers == loggers[op.name].handlers

\* File handlers the last construction added.
NewFileHandlers == Cardinality(FileAt(Handlers)) - Cardinality(FileAt(op.pre.handlers))

\* The log file the environment names.
ExpectedTarget ==
    Join(env.log_path.val,
         (IF env.VULCAN_LOG_NAME.set THEN env.VULCAN_LOG_NAME.val
          ELSE <<"vulcan">>) \o <<".log">>)

\* The threshold the environment and the constructor's level argument name.
ExpectedThreshold ==
    Upper(IF env.VULCAN_LOG_LEVEL.set THEN env.VULCAN_LOG_LEVEL.val ELSE op.level)

Last(q) == q[Len(q)]

\* The excluded suffixes, spelled out on the tokens of a path.
SuffixExcluded(path) ==
    /\ path # <<>>
    /\ \/ Last(path) \in {"decorator.py", "logger.py", "<frozen importlib._bootstrap>"}
       \/ /\ Len(path) >= 3
          /\ path[Len(path) - 2] = "logging"
          /\ path[Len(path) - 1] = "/"
          /\ Last(path) = "__init__.py"

VisibleAt(frames) == {i \in 1..Len(frames) : ~SuffixExcluded(frames[i].filename)}

UnknownCaller == [caller_filename |-> <<"Unknown">>, caller_lineno |-> 0]

\* The first frame outside the excluded files, base name and line; the default
\* when there is none.
FirstVisible(frames) ==
    IF VisibleAt(frames) = {} THEN UnknownCaller
    ELSE LET i == CHOOSE k \in VisibleAt(frames) : \A j \in VisibleAt(frames) : k <= j
         IN [caller_filename |-> Basename(frames[i].filename),
             caller_lineno |-> frames[i].lineno]

\* Records the sinks of target t emitted during the last call.
RecordsAt(t) == {i \in 1..Len(emitted) : emitted[i].target = t}
RecordsOf(h) == {i \in 1..Len(emitted) : emitted[i].handler = h}

Severity == LevelName(op.method)

----------------------------------------------------------------------------
(* Claims *)

\* C1 (as claimed): a fault of the delegated call never leaves a public
\* logging method: the method returns normally and one fallback line reports
\* the fault.
C1_NoFaultPropagates ==
    op.kind = "log" => (~op.raised /\ (op.fault => LinesOut + LinesErr = 1))

\* C2: constructing a Logger never raises, whatever sub-steps of the setup
\* fail; every fault is reported by one fallback line where it occurs, and
\* the file sink setup is attempted whenever log_path is set, also after a
\* failed console sink installation.
C2_ConstructNeverRaises ==
    op.kind = "construct" =>
        /\ ~op.raised
        /\ op.name \in instances
        /\ Entered("install")
        /\ LogPathOn => (Entered("make_dir") /\ Entered("file_handler"))
        /\ LinesOut = FaultsRaised

\* C2 witness: the console sink installation failed and the file sink was
\* attached all the same.
C2_Witness ==
    /\ op.kind = "construct"
    /\ Entered("install!")
    /\ Entered("file_handler")
    /\ NewFileHandlers = 1
    /\ LinesOut = 1

C4_CallSiteRecorded ==
    op.kind = "log" =>
        call.extra = [caller_filename |-> Basename(op.callers[1].filename),
                      caller_lineno |-> op.callers[1].lineno]

\* C5 (as claimed): a call appends exactly one record, of the call's severity
\* and message, to every sink whose threshold the severity passes, and never
\* more than one to any sink, whatever was constructed before.
C5_OneRecordPerSink ==
    (op.kind = "log" /\ ~op.fault) =>
        \A h \in 1..Len(Handlers) :
            LET t == Handlers[h].target
            IN /\ Cardinality(RecordsAt(t)) <= 1
               /\ (/\ LevelNo(Severity) >= LevelNo(Handlers[h].level)
                   /\ LevelNo(Severity) >= LevelNo(EffectiveLevel(loggers[op.name])))
                  => /\ Cardinality(RecordsAt(t)) = 1
                     /\ \A i \in RecordsAt(t) :
                            /\ emitted[i].record.levelname = Severity
                            /\ emitted[i].record.message = op.message

\* C6: each public method delegates to the logger's method of its own name,
\* with the message unchanged, the caller info of this call as extra context,
\* and the exception-info flag set for error alone.
C6_Delegation ==
    op.kind = "log" =>
        /\ call.func = op.method
        /\ call.message = op.message
        /\ call.extra = FirstVisible(op.callers)
        /\ call.exc_info = (op.method = "error")
        /\ \A i \in 1..Len(emitted) :
               /\ emitted[i].record.message = op.message
               /\ emitted[i].record.exc_info = (op.method = "error")

\* C6 witness: an error call, delegated with the flag set, and emitted.
C6_Witness ==
    /\ op.kind = "log"
    /\ op.method = "error"
    /\ call.exc_info
    /\ call.extra.caller_lineno = 20
    /\ emitted # <<>>

C9_FallbackOnStderr ==
    op.kind = "construct" => (LinesErr = FaultsRaised /\ emitted = <<>>)

\* C10: the caller resolution returns the base name and the line of the
\* first scanned frame whose path ends with none of the excluded suffixes,
\* and the default {Unknown, 0} exactly when every scanned frame is excluded.
C10_FirstVisibleFrame ==
    result # NoResult =>
        /\ result = FirstVisible(Tail(stack))
        /\ result = UnknownCaller <=> VisibleAt(Tail(stack)) = {}

\* C10 witness: two excluded frames, then a frame of the calling program,
\* which is the one returned.
C10_Witness ==
    /\ result = [caller_filename |-> <<"main.py">>, caller_lineno |-> 20]
    /\ Len(stack) = 4
    /\ stack[2].filename = ComponentFile
    /\ stack[3].filename = MyLoggerFile
    /\ stack[4] = Frame(MainFile, 20)

====
